---- MODULE Spec2Model ----
(***************************************************************************)
(* Model of the fixed-capacity first-fit pool allocator of                 *)
(* src/memory_manager.c: the descriptor chain (block_list), the arena      *)
(* (memory_pool) and the operations mem_alloc, mem_free and mem_resize.    *)
(* Pointers are modelled by their offset from memory_pool; NULL is -1.     *)
(***************************************************************************)
EXTENDS Integers, Naturals, Sequences, FiniteSets, TLC

\* ------------------------------------------------------------------ bounds
MaxCap  == 4        \* largest capacity handed to mem_init
MaxByte == 1        \* arena bytes range over 0..MaxByte
LockCap == 3        \* largest capacity in the runs with list calls and teardown
NodeSize == 2       \* sizeof(Node) in arena units: a node takes more than the smallest block

NULL == 0 - 1

Caps    == 1..MaxCap
Bytes   == 0..MaxByte
Sizes   == 0..(MaxCap + 1)           \* requested sizes, one above any capacity
Ptrs    == {NULL} \cup (0..MaxCap)   \* NULL, every offset, one past the end
Bools   == {TRUE, FALSE}
Threads == {1, 2}
ListOwner == 0 - 1                   \* marks a block that holds a list node
LockSizes == 0..LockCap

VARIABLES
    memory_pool,    \* the arena: offset -> byte
    pool_size,      \* capacity given to mem_init
    block_list,     \* the descriptor chain, in chain order
    last,           \* the most recent call: operation, arguments, result, chain before
    held,           \* offset -> number of bytes granted to a caller there (0: none)
    freed,          \* addresses released since the last Allocate/Resize call
    run,            \* "fresh" after init, "full" after Allocate(capacity) + Allocates only
    mem_mutex,      \* the pool lock: the thread that holds it, 0 when free
    list_mutex,     \* the list lock: the thread that holds it, 0 when free
    pc,             \* thread -> the place in the code it is at
    cont,           \* thread -> the place its current pool call returns to
    loc,            \* thread -> arguments and locals of its current call
    own,            \* offset -> the thread (or the list) holding the block there
    head            \* the linked list: addresses of its nodes, first to last

\* what the threads add to the state
tvars == <<mem_mutex, list_mutex, pc, cont, loc, own, head>>

vars == <<memory_pool, pool_size, block_list, last, held, freed, run, tvars>>

\* ------------------------------------------------------------ descriptors
MemBlock(o, s, f) == [offset |-> o, size |-> s, is_free |-> f]

Min(a, b) == IF a < b THEN a ELSE b

\* the chain with element i replaced by the sequence repl
Splice(bl, i, repl) == SubSeq(bl, 1, i - 1) \o repl \o SubSeq(bl, i + 1, Len(bl))

create_initial_block(size) == << MemBlock(0, size, TRUE) >>

\* ---------------------------------------------------------------- mem_alloc
RECURSIVE AllocZeroScan(_, _)
AllocZeroScan(bl, i) ==
    IF i > Len(bl) THEN NULL
    ELSE IF bl[i].is_free THEN bl[i].offset
    ELSE AllocZeroScan(bl, i + 1)

RECURSIVE AllocScan(_, _, _, _)
AllocScan(bl, i, size, ok) ==
    IF i > Len(bl) THEN [list |-> bl, ret |-> NULL]
    ELSE IF ~bl[i].is_free \/ bl[i].size < size THEN AllocScan(bl, i + 1, size, ok)
    ELSE IF bl[i].size > size
         THEN IF ~ok THEN [list |-> bl, ret |-> NULL]
              ELSE [list |-> Splice(bl, i,
                                << MemBlock(bl[i].offset, size, FALSE),
                                   MemBlock(bl[i].offset + size, bl[i].size - size, TRUE) >>),
                    ret  |-> bl[i].offset]
         ELSE [list |-> Splice(bl, i, << MemBlock(bl[i].offset, bl[i].size, FALSE) >>),
               ret  |-> bl[i].offset]

\* variant: the scan skips a free descriptor whose length equals the request
RECURSIVE AllocScanStrict(_, _, _, _)
AllocScanStrict(bl, i, size, ok) ==
    IF i > Len(bl) THEN [list |-> bl, ret |-> NULL]
    ELSE IF ~bl[i].is_free \/ bl[i].size <= size THEN AllocScanStrict(bl, i + 1, size, ok)
    ELSE AllocScan(bl, i, size, ok)

mem_alloc_strict(bl, size, ok) ==
    IF size = 0 THEN [list |-> bl, ret |-> AllocZeroScan(bl, 1)]
    ELSE AllocScanStrict(bl, 1, size, ok)

\* variant: the scan does not look at is_free
RECURSIVE AllocScanAny(_, _, _, _)
AllocScanAny(bl, i, size, ok) ==
    IF i > Len(bl) THEN [list |-> bl, ret |-> NULL]
    ELSE IF bl[i].size < size THEN AllocScanAny(bl, i + 1, size, ok)
    ELSE AllocScan(Splice(bl, i, << MemBlock(bl[i].offset, bl[i].size, TRUE) >>), i, size, ok)

mem_alloc_any(bl, size, ok) ==
    IF size = 0 THEN [list |-> bl, ret |-> AllocZeroScan(bl, 1)]
    ELSE AllocScanAny(bl, 1, size, ok)

\* variant: the split-off remainder is not marked free
RECURSIVE AllocScanLeftUsed(_, _, _, _)
AllocScanLeftUsed(bl, i, size, ok) ==
    IF i > Len(bl) THEN [list |-> bl, ret |-> NULL]
    ELSE IF ~bl[i].is_free \/ bl[i].size < size THEN AllocScanLeftUsed(bl, i + 1, size, ok)
    ELSE IF bl[i].size > size /\ ok
         THEN [list |-> Splice(bl, i,
                           << MemBlock(bl[i].offset, size, FALSE),
                              MemBlock(bl[i].offset + size, bl[i].size - size, FALSE) >>),
               ret  |-> bl[i].offset]
         ELSE AllocScan(bl, i, size, ok)

mem_alloc_leftused(bl, size, ok) ==
    IF size = 0 THEN [list |-> bl, ret |-> AllocZeroScan(bl, 1)]
    ELSE AllocScanLeftUsed(bl, 1, size, ok)

\* variant: size 0 is not singled out and goes through the first-fit scan
mem_alloc_nozero(bl, size, ok) == AllocScan(bl, 1, size, ok)

\* ok: whether the host malloc for the split descriptor succeeds
mem_alloc(bl, size, ok) ==
    IF size = 0 THEN [list |-> bl, ret |-> AllocZeroScan(bl, 1)]
    ELSE AllocScan(bl, 1, size, ok)

\* ----------------------------------------------------------------- mem_free
\* variant: a descriptor matches any address inside its range
RECURSIVE FindInside(_, _, _)
FindInside(bl, i, ptr) ==
    IF i > Len(bl) THEN 0
    ELSE IF ptr < bl[i].offset \/ ptr >= bl[i].offset + bl[i].size
    THEN FindInside(bl, i + 1, ptr)
    ELSE i

RECURSIVE FindOffset(_, _, _)
\* index of the first descriptor whose offset is ptr, 0 when there is none
FindOffset(bl, i, ptr) ==
    IF i > Len(bl) THEN 0
    ELSE IF bl[i].offset # ptr THEN FindOffset(bl, i + 1, ptr)
    ELSE i

MergeNext(bl, i) ==
    IF i < Len(bl) /\ bl[i + 1].is_free
    THEN SubSeq(bl, 1, i - 1)
         \o << MemBlock(bl[i].offset, bl[i].size + bl[i + 1].size, bl[i].is_free) >>
         \o SubSeq(bl, i + 2, Len(bl))
    ELSE bl

\* variant: the previous descriptor drops the current one without absorbing its length
MergePrevShort(bl, i) ==
    IF i > 1 /\ bl[i - 1].is_free
    THEN SubSeq(bl, 1, i - 1) \o SubSeq(bl, i + 1, Len(bl))
    ELSE bl

MergePrev(bl, i) ==
    IF i > 1 /\ bl[i - 1].is_free
    THEN SubSeq(bl, 1, i - 2)
         \o << MemBlock(bl[i - 1].offset, bl[i - 1].size + bl[i].size, bl[i - 1].is_free) >>
         \o SubSeq(bl, i + 1, Len(bl))
    ELSE bl

\* variant: no merge with the previous descriptor
mem_free_noprev(bl, ptr) ==
    IF ptr = NULL THEN bl
    ELSE LET i == FindOffset(bl, 1, ptr) IN
         IF i = 0 THEN bl
         ELSE IF bl[i].is_free THEN bl
         ELSE MergeNext(Splice(bl, i, << MemBlock(bl[i].offset, bl[i].size, TRUE) >>), i)

\* variant: no early return for a descriptor that is already free
mem_free_nocheck(bl, ptr) ==
    IF ptr = NULL THEN bl
    ELSE LET i == FindOffset(bl, 1, ptr) IN
         IF i = 0 THEN bl
         ELSE LET marked == Splice(bl, i, << MemBlock(bl[i].offset, bl[i].size, TRUE) >>)
              IN  MergePrev(MergeNext(marked, i), i)

mem_free(bl, ptr) ==
    IF ptr = NULL THEN bl
    ELSE LET i == FindOffset(bl, 1, ptr) IN
         IF i = 0 THEN bl
         ELSE IF bl[i].is_free THEN bl
         ELSE LET marked == Splice(bl, i, << MemBlock(bl[i].offset, bl[i].size, TRUE) >>)
              IN  MergePrev(MergeNext(marked, i), i)

\* --------------------------------------------------------------- mem_resize
\* variant: the leftover descriptor keeps the whole old length
SplitAtLong(bl, i, size) ==
    Splice(bl, i, << MemBlock(bl[i].offset, size, bl[i].is_free),
                     MemBlock(bl[i].offset + size, bl[i].size, TRUE) >>)

\* variant: the leftover descriptor is not marked free
SplitAtUsed(bl, i, size) ==
    Splice(bl, i, << MemBlock(bl[i].offset, size, bl[i].is_free),
                     MemBlock(bl[i].offset + size, bl[i].size - size, FALSE) >>)

\* split off the leftover of descriptor i beyond size as a new free descriptor
SplitAt(bl, i, size) ==
    Splice(bl, i, << MemBlock(bl[i].offset, size, bl[i].is_free),
                     MemBlock(bl[i].offset + size, bl[i].size - size, TRUE) >>)

\* variant: source and destination exchanged
memcpy_swapped(pool, dst, src, n) ==
    [k \in DOMAIN pool |->
        IF k >= src /\ k < src + n THEN pool[dst + (k - src)] ELSE pool[k]]

\* memcpy(dst, src, n) inside the arena
memcpy(pool, dst, src, n) ==
    [k \in DOMAIN pool |->
        IF k >= dst /\ k < dst + n THEN pool[src + (k - dst)] ELSE pool[k]]

\* steps 3, 4, 5 and 7 of mem_resize, the part that runs under the lock, for
\* ptr # NULL and size > 0; fallback says that step 6 is to follow
ResizeLocked(bl, ptr, size, ok) ==
    LET i == FindOffset(bl, 1, ptr) IN
    IF i = 0 THEN [list |-> bl, ret |-> NULL, fallback |-> FALSE, old_size |-> 0]
    ELSE IF bl[i].size >= size
    THEN IF bl[i].size > size
         THEN IF ~ok THEN [list |-> bl, ret |-> NULL, fallback |-> FALSE, old_size |-> 0]
              ELSE [list |-> SplitAt(bl, i, size), ret |-> ptr,
                    fallback |-> FALSE, old_size |-> 0]
         ELSE [list |-> bl, ret |-> ptr, fallback |-> FALSE, old_size |-> 0]
    ELSE IF i < Len(bl) /\ bl[i + 1].is_free
            /\ bl[i].size + bl[i + 1].size >= size
    THEN LET merged == MergeNext(bl, i) IN
         IF merged[i].size > size
         THEN IF ~ok THEN [list |-> merged, ret |-> NULL, fallback |-> FALSE, old_size |-> 0]
              ELSE [list |-> SplitAt(merged, i, size), ret |-> ptr,
                    fallback |-> FALSE, old_size |-> 0]
         ELSE [list |-> merged, ret |-> ptr, fallback |-> FALSE, old_size |-> 0]
    ELSE [list |-> bl, ret |-> NULL, fallback |-> TRUE, old_size |-> bl[i].size]

\* variant: the old block is never released
Relocate_leak(bl, pool, ptr, size, old_size, ok) ==
    LET a == mem_alloc(bl, size, ok) IN
    IF a.ret = NULL
    THEN [list |-> a.list, ret |-> NULL, pool |-> pool]
    ELSE [list |-> a.list,
          ret  |-> a.ret,
          pool |-> memcpy(pool, a.ret, ptr, Min(old_size, size))]

\* step 6 of mem_resize run by one thread alone: allocate, copy, release
Relocate(bl, pool, ptr, size, old_size, ok) ==
    LET a == mem_alloc(bl, size, ok) IN
    IF a.ret = NULL
    THEN [list |-> a.list, ret |-> NULL, pool |-> pool]
    ELSE [list |-> mem_free(a.list, ptr),
          ret  |-> a.ret,
          pool |-> memcpy(pool, a.ret, ptr, Min(old_size, size))]

\* steps 3 to 7 of mem_resize, for ptr # NULL and size > 0; steps 4 and 5 need
\* at most one host malloc, step 6 only the one inside mem_alloc
ResizeBlock(bl, pool, ptr, size, ok) ==
    LET r == ResizeLocked(bl, ptr, size, ok) IN
    IF r.fallback THEN Relocate(bl, pool, ptr, size, r.old_size, ok)
    ELSE [list |-> r.list, ret |-> r.ret, pool |-> pool]

\* variant: the size == 0 case is not singled out
mem_resize_nozero(bl, pool, ptr, size, ok) ==
    IF ptr = NULL
    THEN LET a == mem_alloc(bl, size, ok)
         IN  [list |-> a.list, ret |-> a.ret, pool |-> pool]
    ELSE ResizeBlock(bl, pool, ptr, size, ok)

mem_resize(bl, pool, ptr, size, ok) ==
    IF ptr = NULL
    THEN LET a == mem_alloc(bl, size, ok)
         IN  [list |-> a.list, ret |-> a.ret, pool |-> pool]
    ELSE IF size = 0
    THEN [list |-> mem_free(bl, ptr), ret |-> NULL, pool |-> pool]
    ELSE ResizeBlock(bl, pool, ptr, size, ok)

\* ------------------------------------------------------------------- state
NoLocals == [ptr |-> NULL, size |-> 0, ret |-> NULL, old_size |-> 0]

NoCall == [op |-> "init", ptr |-> NULL, size |-> 0, ok |-> TRUE, ret |-> NULL,
           before |-> << >>, again |-> FALSE]

mem_init(size, bytes) ==
    /\ memory_pool = bytes
    /\ pool_size   = size
    /\ block_list  = create_initial_block(size)

Ghost0 ==
    /\ last  = NoCall
    /\ held  = [a \in 0..(pool_size - 1) |-> 0]
    /\ freed = {}
    /\ run   = "fresh"
    /\ mem_mutex = 0
    /\ list_mutex = 0
    /\ pc   = [t \in Threads |-> "idle"]
    /\ cont = [t \in Threads |-> "idle"]
    /\ loc  = [t \in Threads |-> NoLocals]
    /\ own  = [a \in 0..(pool_size - 1) |-> 0]
    /\ head = << >>

\* the state after mem_init(size), the arena as the host hands it out zero-filled
Init ==
    /\ \E size \in Caps : mem_init(size, [k \in 0..(size - 1) |-> 0])
    /\ Ghost0

\* the descriptor that starts at ptr is present and in use
UsedAt(bl, ptr) ==
    LET i == FindOffset(bl, 1, ptr) IN i # 0 /\ ~bl[i].is_free

\* one call: its effect on the pool and the record of it
Call(op, ptr, size, ok, r, again) ==
    /\ block_list'  = r.list
    /\ memory_pool' = r.pool
    /\ last' = [op |-> op, ptr |-> ptr, size |-> size, ok |-> ok, ret |-> r.ret,
                before |-> block_list, again |-> again]
    /\ UNCHANGED <<pool_size, tvars>>

AllocCall(size, ok) ==
    LET a == mem_alloc(block_list, size, ok)
    IN  Call("alloc", NULL, size, ok, [list |-> a.list, ret |-> a.ret, pool |-> memory_pool],
             FALSE)

FreeCall(ptr) ==
    Call("free", ptr, 0, TRUE,
         [list |-> mem_free(block_list, ptr), ret |-> NULL, pool |-> memory_pool],
         ptr \in freed)

ResizeCall(ptr, size, ok) ==
    Call("resize", ptr, size, ok, mem_resize(block_list, memory_pool, ptr, size, ok), FALSE)

\* ----------------------------------------------------------------- actions
Allocate(size, ok) ==
    /\ AllocCall(size, ok)
    /\ freed' = {}
    /\ run' = IF run = "fresh" /\ size = pool_size THEN "full"
              ELSE IF run = "full" THEN "full" ELSE "other"
    /\ UNCHANGED held

Release(ptr) ==
    /\ FreeCall(ptr)
    /\ freed' = IF UsedAt(block_list, ptr) THEN freed \cup {ptr} ELSE freed
    /\ run' = "other"
    /\ UNCHANGED held

Resize(ptr, size, ok) ==
    /\ ResizeCall(ptr, size, ok)
    /\ freed' = {}
    /\ run' = "other"
    /\ UNCHANGED held

\* any caller may pass any address: stale, interior, out of range or NULL
Next ==
    \/ \E size \in Sizes, ok \in Bools : Allocate(size, ok)
    \/ \E ptr \in Ptrs : Release(ptr)
    \/ \E ptr \in Ptrs, size \in Sizes, ok \in Bools : Resize(ptr, size, ok)

Spec == Init /\ [][Next]_vars

\* ------------------------------------------- callers that keep to their blocks
\* A caller owns an address from the Allocate(size > 0) or Resize(size > 0)
\* that returned it until it passes it to Release or to a Resize that succeeds.
InitOwn ==
    /\ \E size \in Caps : \E bytes \in [0..(size - 1) -> Bytes] : mem_init(size, bytes)
    /\ Ghost0

Owned == {a \in DOMAIN held : held[a] > 0}

OwnAllocate(size, ok) ==
    /\ AllocCall(size, ok)
    /\ held' = IF size > 0 /\ last'.ret # NULL
               THEN [held EXCEPT ![last'.ret] = size] ELSE held
    /\ UNCHANGED <<freed, run>>

OwnRelease(ptr) ==
    /\ ptr \in Owned
    /\ FreeCall(ptr)
    /\ held' = [held EXCEPT ![ptr] = 0]
    /\ UNCHANGED <<freed, run>>

OwnResize(ptr, size, ok) ==
    /\ ptr \in Owned
    /\ ResizeCall(ptr, size, ok)
    /\ held' = IF size = 0 THEN [held EXCEPT ![ptr] = 0]
               ELSE IF last'.ret = NULL THEN held
               ELSE [[held EXCEPT ![ptr] = 0] EXCEPT ![last'.ret] = size]
    /\ UNCHANGED <<freed, run>>

\* the owner of ptr stores byte b at ptr + k, inside the bytes it was granted
Write(ptr, k, b) ==
    /\ ptr \in Owned
    /\ k < held[ptr]
    /\ memory_pool' = [memory_pool EXCEPT ![ptr + k] = b]
    /\ last' = [op |-> "write", ptr |-> ptr, size |-> k, ok |-> TRUE, ret |-> NULL,
                before |-> block_list, again |-> FALSE]
    /\ UNCHANGED <<pool_size, block_list, held, freed, run, tvars>>

NextOwn ==
    \/ \E size \in Sizes, ok \in Bools : OwnAllocate(size, ok)
    \/ \E ptr \in Ptrs : OwnRelease(ptr)
    \/ \E ptr \in Ptrs, size \in Sizes, ok \in Bools : OwnResize(ptr, size, ok)
    \/ \E ptr \in Ptrs, k \in 0..(MaxCap - 1), b \in Bytes : Write(ptr, k, b)

SpecOwn == InitOwn /\ [][NextOwn]_vars

\* ------------------------------------ runs of Allocate(size > 0) and Release
\* Release takes any address; held records what Allocate returned and nobody
\* released since.
PlainAllocate(size, ok) ==
    /\ size > 0
    /\ AllocCall(size, ok)
    /\ held' = IF last'.ret # NULL THEN [held EXCEPT ![last'.ret] = size] ELSE held
    /\ UNCHANGED <<freed, run>>

PlainRelease(ptr) ==
    /\ FreeCall(ptr)
    /\ held' = IF ptr \in DOMAIN held THEN [held EXCEPT ![ptr] = 0] ELSE held
    /\ UNCHANGED <<freed, run>>

NextPlain ==
    \/ \E size \in Sizes, ok \in Bools : PlainAllocate(size, ok)
    \/ \E ptr \in Ptrs : PlainRelease(ptr)

SpecPlain == Init /\ [][NextPlain]_vars

\* ------------------------------------------------- teardown and re-init
\* variant: the chain pointer is not reset
mem_deinit_keep(bl) == [pool |-> << >>, size |-> 0, list |-> bl]

\* mem_deinit: the arena and every descriptor are freed, the globals reset
mem_deinit(bl) == [pool |-> << >>, size |-> 0, list |-> << >>]

\* the pool has been torn down and not set up again
TornDown == memory_pool = << >> /\ pool_size = 0

Teardown ==
    LET d == mem_deinit(block_list) IN
    /\ memory_pool' = d.pool
    /\ pool_size'   = d.size
    /\ block_list'  = d.list
    /\ last' = [op |-> "deinit", ptr |-> NULL, size |-> 0, ok |-> TRUE, ret |-> NULL,
                before |-> block_list, again |-> FALSE]
    /\ freed' = {}
    /\ run' = "other"
    /\ UNCHANGED <<held, tvars>>

\* mem_init(size) on a torn-down pool
InitPool(size) ==
    /\ TornDown
    /\ memory_pool' = [k \in 0..(size - 1) |-> 0]
    /\ pool_size'   = size
    /\ block_list'  = create_initial_block(size)
    /\ last' = [op |-> "reinit", ptr |-> NULL, size |-> size, ok |-> TRUE, ret |-> NULL,
                before |-> block_list, again |-> FALSE]
    /\ freed' = {}
    /\ run' = "fresh"
    /\ UNCHANGED <<held, tvars>>

NextLife ==
    \/ \E size \in Sizes, ok \in Bools : Allocate(size, ok)
    \/ \E ptr \in Ptrs : Release(ptr)
    \/ \E ptr \in Ptrs, size \in Sizes, ok \in Bools : Resize(ptr, size, ok)
    \/ Teardown
    \/ \E size \in Caps : InitPool(size)

SpecLife == Init /\ [][NextLife]_vars

\* ------------------------------------------------------------------ threads
\* Each thread runs one call at a time, a step at a time: LOCK(), the part of
\* the function that runs under the lock, UNLOCK(), and for mem_resize's step 6
\* the nested mem_alloc, the memcpy and the nested mem_free.  A thread passes to
\* mem_free and mem_resize only addresses it holds.
OwnedBy(t) == {a \in DOMAIN own : own[a] = t}

\* what the sequential specifications record stays as it is
SeqFrame == UNCHANGED <<pool_size, last, freed, run>>

Goto(t, place) == pc' = [pc EXCEPT ![t] = place]

\* variant: the lock is taken without waiting for it to be free
PoolLock_nowait(t, from, to) ==
    /\ pc[t] = from
    /\ mem_mutex' = t
    /\ Goto(t, to)
    /\ UNCHANGED <<memory_pool, block_list, held, list_mutex, cont, loc, own, head>>
    /\ SeqFrame

\* LOCK(): pthread_mutex_lock(&mem_mutex), blocking while another thread holds it
PoolLock(t, from, to) ==
    /\ pc[t] = from
    /\ mem_mutex = 0
    /\ mem_mutex' = t
    /\ Goto(t, to)
    /\ UNCHANGED <<memory_pool, block_list, held, list_mutex, cont, loc, own, head>>
    /\ SeqFrame

\* the return of a pool function to the place it was called from
Return(t) ==
    /\ Goto(t, cont[t])
    /\ cont' = [cont EXCEPT ![t] = "idle"]
    /\ loc' = IF cont[t] = "idle" THEN [loc EXCEPT ![t] = NoLocals] ELSE loc

\* variant: mem_alloc returns its final NULL without UNLOCK()
PoolUnlock_skipnull(t, from) ==
    /\ pc[t] = from
    /\ mem_mutex' = IF from = "a_unlock" /\ loc[t].ret = NULL THEN mem_mutex ELSE 0
    /\ Return(t)
    /\ UNCHANGED <<memory_pool, block_list, held, list_mutex, own, head>>
    /\ SeqFrame

\* UNLOCK() followed by return
PoolUnlock(t, from) ==
    /\ pc[t] = from
    /\ mem_mutex' = 0
    /\ Return(t)
    /\ UNCHANGED <<memory_pool, block_list, held, list_mutex, own, head>>
    /\ SeqFrame

\* ---- mem_alloc(size); the size a caller passes is drawn at the step that
\* first reads it, the one under the lock: nothing looks at it before
CallAlloc(t) ==
    /\ pc[t] = "idle"
    /\ Goto(t, "a_lock")
    /\ UNCHANGED <<memory_pool, block_list, held, mem_mutex, list_mutex, cont, loc, own, head>>
    /\ SeqFrame

AllocLock(t) == PoolLock(t, "a_lock", "a_body")

\* called from mem_resize or new_node the size is the one they pass
AllocBody(t, size, ok) ==
    LET a == mem_alloc(block_list, size, ok)
        granted == size > 0 /\ a.ret # NULL
    IN  /\ pc[t] = "a_body"
        /\ cont[t] # "idle" => size = loc[t].size
        /\ block_list' = a.list
        /\ loc' = [loc EXCEPT ![t].ret = a.ret]
        /\ own'  = IF granted THEN [own EXCEPT ![a.ret] = IF cont[t] = "l_link" THEN ListOwner ELSE t]
                   ELSE own
        /\ UNCHANGED held
        /\ Goto(t, "a_unlock")
        /\ UNCHANGED <<memory_pool, mem_mutex, list_mutex, cont, head>>
        /\ SeqFrame

AllocUnlock(t) == PoolUnlock(t, "a_unlock")

\* ---- mem_free(ptr), ptr not NULL (mem_free(NULL) returns at once)
CallFree(t, ptr) ==
    /\ pc[t] = "idle"
    /\ ptr \in OwnedBy(t)
    /\ loc' = [loc EXCEPT ![t] = [NoLocals EXCEPT !.ptr = ptr]]
    /\ Goto(t, "f_lock")
    /\ UNCHANGED <<memory_pool, block_list, held, mem_mutex, list_mutex, cont, own, head>>
    /\ SeqFrame

FreeLock(t) == PoolLock(t, "f_lock", "f_body")

\* the holder's record of an address is dropped
Drop(h, ptr) == IF ptr \in DOMAIN h THEN [h EXCEPT ![ptr] = 0] ELSE h

FreeBody(t) ==
    /\ pc[t] = "f_body"
    /\ block_list' = mem_free(block_list, loc[t].ptr)
    /\ own'  = Drop(own, loc[t].ptr)
    /\ UNCHANGED held
    /\ Goto(t, "f_unlock")
    /\ UNCHANGED <<memory_pool, mem_mutex, list_mutex, cont, loc, head>>
    /\ SeqFrame

FreeUnlock(t) == PoolUnlock(t, "f_unlock")

\* ---- mem_resize(ptr, size): steps 1 and 2 look at ptr and at whether size is
\* 0 (zero); a size > 0 is drawn at the step under the lock
CallResize(t, ptr, zero) ==
    /\ pc[t] = "idle"
    /\ ptr \in OwnedBy(t) \cup {NULL}
    /\ loc' = [loc EXCEPT ![t] = [NoLocals EXCEPT !.ptr = ptr]]
    /\ Goto(t, IF ptr = NULL THEN "a_lock" ELSE IF zero THEN "f_lock" ELSE "r_lock")
    /\ UNCHANGED <<memory_pool, block_list, held, mem_mutex, list_mutex, cont, own, head>>
    /\ SeqFrame

ResizeLock(t) == PoolLock(t, "r_lock", "r_body")

ResizeBody(t, size, ok) ==
    LET r == ResizeLocked(block_list, loc[t].ptr, size, ok) IN
    /\ pc[t] = "r_body"
    /\ size > 0
    /\ block_list' = r.list
    /\ loc' = IF r.fallback THEN [loc EXCEPT ![t].old_size = r.old_size, ![t].size = size]
              ELSE [loc EXCEPT ![t].ret = r.ret]
    /\ UNCHANGED held
    /\ Goto(t, IF r.fallback THEN "r_fb_unlock" ELSE "r_unlock")
    /\ UNCHANGED <<memory_pool, mem_mutex, list_mutex, cont, own, head>>
    /\ SeqFrame

ResizeUnlock(t) == PoolUnlock(t, "r_unlock")

\* step 6: UNLOCK(), then the call of mem_alloc(size)
ResizeFallbackUnlock(t) ==
    /\ pc[t] = "r_fb_unlock"
    /\ mem_mutex' = 0
    /\ Goto(t, "a_lock")
    /\ cont' = [cont EXCEPT ![t] = "r_copy"]
    /\ UNCHANGED <<memory_pool, block_list, held, list_mutex, loc, own, head>>
    /\ SeqFrame

\* back from mem_alloc: return NULL, or memcpy and the call of mem_free(ptr)
ResizeCopy(t) ==
    /\ pc[t] = "r_copy"
    /\ IF loc[t].ret = NULL
       THEN /\ Goto(t, "idle")
            /\ loc' = [loc EXCEPT ![t] = NoLocals]
            /\ UNCHANGED <<memory_pool, cont>>
       ELSE /\ memory_pool' = memcpy(memory_pool, loc[t].ret, loc[t].ptr,
                                     Min(loc[t].old_size, loc[t].size))
            /\ Goto(t, "f_lock")
            /\ cont' = [cont EXCEPT ![t] = "r_ret"]
            /\ UNCHANGED loc
    /\ UNCHANGED <<block_list, held, mem_mutex, list_mutex, own, head>>
    /\ SeqFrame

\* back from mem_free: return new_ptr
ResizeReturn(t) ==
    /\ pc[t] = "r_ret"
    /\ Goto(t, "idle")
    /\ loc' = [loc EXCEPT ![t] = NoLocals]
    /\ UNCHANGED <<memory_pool, block_list, held, mem_mutex, list_mutex, cont, own, head>>
    /\ SeqFrame

PoolStep(t) ==
    \/ CallAlloc(t)
    \/ AllocLock(t)
    \/ \E size \in Sizes, ok \in Bools : AllocBody(t, size, ok)
    \/ AllocUnlock(t)
    \/ \E ptr \in Ptrs : CallFree(t, ptr)
    \/ FreeLock(t)
    \/ FreeBody(t)
    \/ FreeUnlock(t)
    \/ \E ptr \in Ptrs, zero \in Bools : CallResize(t, ptr, zero)
    \/ ResizeLock(t)
    \/ \E size \in Sizes, ok \in Bools : ResizeBody(t, size, ok)
    \/ ResizeUnlock(t)
    \/ ResizeFallbackUnlock(t)
    \/ ResizeCopy(t)
    \/ ResizeReturn(t)

NextThreads == \E t \in Threads : PoolStep(t)

SpecThreads == Init /\ [][NextThreads]_vars

\* ------------------------------------------- mem_deinit and the list calls
CallDeinit(t) ==
    /\ pc[t] = "idle"
    /\ Goto(t, "d_lock")
    /\ UNCHANGED <<memory_pool, block_list, held, mem_mutex, list_mutex, cont, loc, own, head>>
    /\ SeqFrame

DeinitLock(t) == PoolLock(t, "d_lock", "d_body")

DeinitBody(t) ==
    LET d == mem_deinit(block_list) IN
    /\ pc[t] = "d_body"
    /\ memory_pool' = d.pool
    /\ pool_size'   = d.size
    /\ block_list'  = d.list
    /\ own'  = [a \in DOMAIN own |-> 0]
    /\ UNCHANGED held
    /\ Goto(t, "d_unlock")
    /\ UNCHANGED <<mem_mutex, list_mutex, cont, loc, head, last, freed, run>>

DeinitUnlock(t) == PoolUnlock(t, "d_unlock")

\* variant: the list lock is taken without waiting for it to be free
ListLock_nowait(t, from, to) ==
    /\ pc[t] = from
    /\ list_mutex' = t
    /\ Goto(t, to)
    /\ UNCHANGED <<memory_pool, block_list, held, mem_mutex, cont, loc, own, head>>
    /\ SeqFrame

\* LOCK() of linked_list.c: pthread_mutex_lock(&list_mutex)
ListLock(t, from, to) ==
    /\ pc[t] = from
    /\ list_mutex = 0
    /\ list_mutex' = t
    /\ Goto(t, to)
    /\ UNCHANGED <<memory_pool, block_list, held, mem_mutex, cont, loc, own, head>>
    /\ SeqFrame

CallList(t, place) ==
    /\ pc[t] = "idle"
    /\ Goto(t, place)
    /\ UNCHANGED <<memory_pool, block_list, held, mem_mutex, list_mutex, cont, loc, own, head>>
    /\ SeqFrame

\* ---- list_insert(head, data)
CallListInsert(t) == CallList(t, "li_lock")

ListInsertLock(t) == ListLock(t, "li_lock", "li_new")

\* new_node: the call of mem_alloc(sizeof(Node))
ListInsertNew(t) ==
    /\ pc[t] = "li_new"
    /\ loc' = [loc EXCEPT ![t].size = NodeSize]
    /\ Goto(t, "a_lock")
    /\ cont' = [cont EXCEPT ![t] = "l_link"]
    /\ UNCHANGED <<memory_pool, block_list, held, mem_mutex, list_mutex, own, head>>
    /\ SeqFrame

\* back from mem_alloc: on NULL report and UNLOCK(); else append the node and UNLOCK()
ListInsertLink(t) ==
    /\ pc[t] = "l_link"
    /\ head' = IF loc[t].ret = NULL THEN head ELSE Append(head, loc[t].ret)
    /\ list_mutex' = 0
    /\ Goto(t, "idle")
    /\ loc' = [loc EXCEPT ![t] = NoLocals]
    /\ UNCHANGED <<memory_pool, block_list, held, mem_mutex, cont, own>>
    /\ SeqFrame

\* ---- list_delete(head, data); k is the position of the first node that
\* holds data, 0 when there is none or the list is empty
CallListDelete(t) == CallList(t, "ld_lock")

ListDeleteLock(t) == ListLock(t, "ld_lock", "ld_body")

ListDeleteBody(t, k) ==
    /\ pc[t] = "ld_body"
    /\ k \in 0..Len(head)
    /\ IF k = 0
       THEN /\ list_mutex' = 0
            /\ Goto(t, "idle")
            /\ loc' = [loc EXCEPT ![t] = NoLocals]
            /\ UNCHANGED <<head, cont>>
       ELSE /\ head' = SubSeq(head, 1, k - 1) \o SubSeq(head, k + 1, Len(head))
            /\ loc' = [loc EXCEPT ![t].ptr = head[k]]
            /\ Goto(t, "f_lock")
            /\ cont' = [cont EXCEPT ![t] = "ld_unlock"]
            /\ UNCHANGED list_mutex
    /\ UNCHANGED <<memory_pool, block_list, held, mem_mutex, own>>
    /\ SeqFrame

ListUnlock(t, from) ==
    /\ pc[t] = from
    /\ list_mutex' = 0
    /\ Goto(t, "idle")
    /\ loc' = [loc EXCEPT ![t] = NoLocals]
    /\ UNCHANGED <<memory_pool, block_list, held, mem_mutex, cont, own, head>>
    /\ SeqFrame

ListDeleteUnlock(t) == ListUnlock(t, "ld_unlock")

\* ---- list_cleanup(head)
CallListCleanup(t) == CallList(t, "lc_lock")

ListCleanupLock(t) == ListLock(t, "lc_lock", "lc_loop")

\* one turn of the loop: mem_free of the current node; after the last node
\* the call of mem_deinit
ListCleanupLoop(t) ==
    /\ pc[t] = "lc_loop"
    /\ IF head # << >>
       THEN /\ head' = Tail(head)
            /\ loc' = [loc EXCEPT ![t].ptr = Head(head)]
            /\ Goto(t, "f_lock")
            /\ cont' = [cont EXCEPT ![t] = "lc_loop"]
       ELSE /\ Goto(t, "d_lock")
            /\ cont' = [cont EXCEPT ![t] = "lc_unlock"]
            /\ UNCHANGED <<head, loc>>
    /\ UNCHANGED <<memory_pool, block_list, held, mem_mutex, list_mutex, own>>
    /\ SeqFrame

ListCleanupUnlock(t) == ListUnlock(t, "lc_unlock")

ListStep(t) ==
    \/ CallDeinit(t)
    \/ DeinitLock(t)
    \/ DeinitBody(t)
    \/ DeinitUnlock(t)
    \/ CallListInsert(t)
    \/ ListInsertLock(t)
    \/ ListInsertNew(t)
    \/ ListInsertLink(t)
    \/ CallListDelete(t)
    \/ ListDeleteLock(t)
    \/ \E k \in 0..LockCap : ListDeleteBody(t, k)
    \/ ListDeleteUnlock(t)
    \/ CallListCleanup(t)
    \/ ListCleanupLock(t)
    \/ ListCleanupLoop(t)
    \/ ListCleanupUnlock(t)

\* the pool calls with sizes up to the largest capacity of these runs
LockPoolStep(t) ==
    \/ CallAlloc(t)
    \/ AllocLock(t)
    \/ \E size \in LockSizes, ok \in Bools : AllocBody(t, size, ok)
    \/ AllocUnlock(t)
    \/ \E ptr \in Ptrs : CallFree(t, ptr)
    \/ FreeLock(t)
    \/ FreeBody(t)
    \/ FreeUnlock(t)
    \/ \E ptr \in Ptrs, zero \in Bools : CallResize(t, ptr, zero)
    \/ ResizeLock(t)
    \/ \E size \in LockSizes, ok \in Bools : ResizeBody(t, size, ok)
    \/ ResizeUnlock(t)
    \/ ResizeFallbackUnlock(t)
    \/ ResizeCopy(t)
    \/ ResizeReturn(t)

\* the state after list_init(head, size)
InitLocks ==
    /\ \E size \in 1..LockCap : mem_init(size, [k \in 0..(size - 1) |-> 0])
    /\ Ghost0

NextLocks == \E t \in Threads : LockPoolStep(t) \/ ListStep(t)

SpecLocks == InitLocks /\ [][NextLocks]_vars

\* the steps of t inside a call: everything but the start of a new call
Progress(t) ==
    \/ AllocLock(t)
    \/ \E size \in LockSizes, ok \in Bools : AllocBody(t, size, ok)
    \/ AllocUnlock(t)
    \/ FreeLock(t)
    \/ FreeBody(t)
    \/ FreeUnlock(t)
    \/ ResizeLock(t)
    \/ \E size \in LockSizes, ok \in Bools : ResizeBody(t, size, ok)
    \/ ResizeUnlock(t)
    \/ ResizeFallbackUnlock(t)
    \/ ResizeCopy(t)
    \/ ResizeReturn(t)
    \/ DeinitLock(t)
    \/ DeinitBody(t)
    \/ DeinitUnlock(t)
    \/ ListInsertLock(t)
    \/ ListInsertNew(t)
    \/ ListInsertLink(t)
    \/ ListDeleteLock(t)
    \/ \E k \in 0..LockCap : ListDeleteBody(t, k)
    \/ ListDeleteUnlock(t)
    \/ ListCleanupLock(t)
    \/ ListCleanupLoop(t)
    \/ ListCleanupUnlock(t)

\* fair scheduling: a thread that can take a step again and again, also one
\* that waits for a lock that keeps being released, takes one in the end
SpecFair == SpecLocks /\ \A t \in Threads : SF_vars(Progress(t))

\* ================================================================== claims
Partition(bl, cap) ==
    /\ Len(bl) >= 1
    /\ bl[1].offset = 0
    /\ \A i \in 1..Len(bl) : bl[i].size > 0
    /\ \A i \in 1..(Len(bl) - 1) : bl[i + 1].offset = bl[i].offset + bl[i].size
    /\ bl[Len(bl)].offset + bl[Len(bl)].size = cap

\* C1: in every state after mem_init(capacity > 0) and any calls, the
\* descriptors in chain order partition [0, capacity): first offset 0, each
\* next offset = previous offset + length, last ends at capacity, lengths > 0.
C1_Partition == Partition(block_list, pool_size)

\* a Resize in place has split a block and the chain holds three or more pieces
C1_Witness ==
    /\ last.op = "resize" /\ last.size > 0 /\ last.ret = last.ptr
    /\ Len(block_list) > Len(last.before)
    /\ Len(block_list) >= 3

\* C2: in every state, no two adjacent descriptors of the chain are both free.
C2_NoAdjacentFree ==
    \A i \in 1..(Len(block_list) - 1) :
        ~(block_list[i].is_free /\ block_list[i + 1].is_free)

\* C3: a non-null address returned by Allocate(size > 0) or by
\* Resize(address, size > 0) is on return the start offset of exactly one
\* descriptor, and that descriptor is used and at least size long.
C3_HandedOutUsed ==
    (last.op \in {"alloc", "resize"} /\ last.size > 0 /\ last.ret # NULL)
    => /\ Cardinality({i \in 1..Len(block_list) : block_list[i].offset = last.ret}) = 1
       /\ \A i \in 1..Len(block_list) :
            block_list[i].offset = last.ret
            => ~block_list[i].is_free /\ block_list[i].size >= last.size

\* indexes of the descriptors that are free and long enough for size
Fits(bl, size) == {i \in 1..Len(bl) : bl[i].is_free /\ bl[i].size >= size}

\* the fitting descriptor of lowest offset
LowestFit(bl, size) ==
    CHOOSE i \in Fits(bl, size) : \A j \in Fits(bl, size) : bl[i].offset <= bl[j].offset

\* C4 as stated: Allocate(size > 0) returns the address of the lowest-offset
\* descriptor that is free and at least size long (null when there is none).
C4_FirstFitAlways ==
    (last.op = "alloc" /\ last.size > 0)
    => IF Fits(last.before, last.size) = {} THEN last.ret = NULL
       ELSE last.ret = last.before[LowestFit(last.before, last.size)].offset

\* C4 amended: Allocate(size > 0) returns the address of the lowest-offset free
\* descriptor of length >= size, provided that descriptor fits exactly or the
\* host supplies the storage for the split descriptor; otherwise it returns
\* null, as it does when no descriptor fits.
C4_FirstFit ==
    (last.op = "alloc" /\ last.size > 0)
    => IF Fits(last.before, last.size) = {} THEN last.ret = NULL
       ELSE LET f == last.before[LowestFit(last.before, last.size)] IN
            IF f.size = last.size \/ last.ok THEN last.ret = f.offset
            ELSE last.ret = NULL

\* a smaller request reused a released lower block although a higher one fits too
C4_Witness ==
    /\ last.op = "alloc" /\ last.size > 0 /\ last.ret # NULL
    /\ \E i, j \in Fits(last.before, last.size) :
         /\ last.before[i].offset = last.ret
         /\ last.before[j].offset > last.ret
         /\ last.before[i].size > last.size

FullBlock == << MemBlock(0, pool_size, FALSE) >>

\* C5: Allocate(capacity) right after mem_init(capacity) returns offset 0, and
\* while only Allocate calls follow, every Allocate(n >= 1) returns null and
\* every Allocate leaves the chain unchanged.
C5_FullPool ==
    (run = "full")
    => /\ block_list = FullBlock
       /\ last.op = "alloc"
       /\ (last.before = create_initial_block(pool_size)) => (last.ret = 0)
       /\ (last.before # create_initial_block(pool_size))
            => /\ last.before = block_list
               /\ (last.size >= 1 => last.ret = NULL)

\* an Allocate(n >= 1) on a full pool of capacity >= 2 returned null
C5_Witness ==
    /\ run = "full" /\ last.before = FullBlock
    /\ last.size >= 1 /\ last.ret = NULL /\ pool_size >= 2

\* C6: after mem_init(capacity) and any calls of Allocate(size > 0) and
\* Release, once every address Allocate returned has been released the chain
\* is one free descriptor spanning [0, capacity).
C6_FullCoalesce ==
    (Owned = {}) => (block_list = create_initial_block(pool_size))

\* the last outstanding block was released between two free neighbours
C6_Witness ==
    /\ Owned = {} /\ last.op = "free"
    /\ Len(last.before) = 3
    /\ last.before[2].offset = last.ptr /\ ~last.before[2].is_free
    /\ block_list = create_initial_block(pool_size)

\* C7: a second Release(x) with no Allocate or Resize since the first one
\* leaves the chain as it was, whether x's descriptor is still there as free or
\* was merged into its previous neighbour, and the partition still holds.
C7_ReleaseIdempotent ==
    (last.op = "free" /\ last.again)
    => /\ block_list = last.before
       /\ Partition(block_list, pool_size)

\* the address is no descriptor's start offset
NoBlockAt(bl, ptr) == \A i \in 1..Len(bl) : bl[i].offset # ptr

\* the second Release came after x's descriptor was merged into its previous
\* neighbour by the first one
C7_Witness ==
    /\ last.op = "free" /\ last.again
    /\ NoBlockAt(last.before, last.ptr)
    /\ \E i \in 1..Len(last.before) :
         /\ last.before[i].is_free
         /\ last.before[i].offset < last.ptr
         /\ last.ptr < last.before[i].offset + last.before[i].size

\* C8: Release(NULL), and Release or Resize(address, size > 0) with an address
\* that is no descriptor's start offset, leave every descriptor unchanged, and
\* that Resize returns null.
C8_InvalidHandle ==
    /\ (last.op = "free" /\ last.ptr = NULL) => block_list = last.before
    /\ (/\ last.op \in {"free", "resize"} /\ last.ptr # NULL
        /\ (last.op = "resize" => last.size > 0)
        /\ NoBlockAt(last.before, last.ptr))
       => /\ block_list = last.before
          /\ (last.op = "resize" => last.ret = NULL)

\* a Resize was given an address in the interior of a used block
C8_Witness ==
    /\ last.op = "resize" /\ last.size > 0 /\ last.ptr # NULL
    /\ NoBlockAt(last.before, last.ptr)
    /\ \E i \in 1..Len(last.before) :
         /\ ~last.before[i].is_free
         /\ last.before[i].offset < last.ptr
         /\ last.ptr < last.before[i].offset + last.before[i].size

\* C9: Resize(NULL, n) returns what Allocate(n) returns and leaves the chain
\* Allocate(n) leaves; Resize(x, 0) with x non-null leaves the chain
\* Release(x) leaves and returns null.
C9_ResizeDelegates ==
    /\ (last.op = "resize" /\ last.ptr = NULL)
       => /\ last.ret = mem_alloc(last.before, last.size, last.ok).ret
          /\ block_list = mem_alloc(last.before, last.size, last.ok).list
    /\ (last.op = "resize" /\ last.ptr # NULL /\ last.size = 0)
       => /\ last.ret = NULL
          /\ block_list = mem_free(last.before, last.ptr)

\* Resize(x, 0) released a used block and merged it with a free neighbour
C9_Witness ==
    /\ last.op = "resize" /\ last.ptr # NULL /\ last.size = 0
    /\ UsedAt(last.before, last.ptr)
    /\ Len(block_list) < Len(last.before)

\* length of the descriptor that starts at ptr
LengthAt(bl, ptr) == bl[FindOffset(bl, 1, ptr)].size

\* a step leaves the granted bytes of every address it is not about unchanged
BytesKept ==
    \A a \in Owned :
        (last'.ptr # a)
        => \A k \in 0..(held[a] - 1) : memory_pool'[a + k] = memory_pool[a + k]

\* a successful Resize of an owned block carries its first bytes along
BytesCarried ==
    (/\ last'.op = "resize" /\ last'.ptr \in Owned
     /\ last'.size > 0 /\ last'.ret # NULL)
    => \A k \in 0..(Min(LengthAt(block_list, last'.ptr), last'.size) - 1) :
           memory_pool'[last'.ret + k] = memory_pool[last'.ptr + k]

\* C10: the bytes granted at an address stay as written while that address is
\* neither released nor resized, whatever other callers do with their own
\* addresses; and a successful Resize leaves the first min(old length, new
\* size) bytes at the returned address equal to those at the old address.
C10_RoundTrip == [][BytesKept /\ BytesCarried]_vars

\* a Resize relocated a block whose first byte is 1 while another block is owned
C10_Witness ==
    /\ last.op = "resize" /\ last.size > 0
    /\ last.ret # NULL /\ last.ret # last.ptr
    /\ memory_pool[last.ret] = 1
    /\ \E a \in Owned : a # last.ret /\ memory_pool[a] = 0

\* C14: a successful Allocate(size > 0) that picks the free descriptor of
\* length L at offset o leaves a used descriptor of length size at o, followed
\* by one new free descriptor of length L - size at o + size when L > size and
\* by nothing new when L = size; every other descriptor is unchanged.
C14_AllocateSplit ==
    (last.op = "alloc" /\ last.size > 0 /\ last.ret # NULL)
    => LET i == FindOffset(last.before, 1, last.ret)
           L == last.before[i].size
       IN  /\ i # 0 /\ last.before[i].is_free /\ L >= last.size
           /\ block_list =
                SubSeq(last.before, 1, i - 1)
                \o << MemBlock(last.ret, last.size, FALSE) >>
                \o (IF L > last.size
                    THEN << MemBlock(last.ret + last.size, L - last.size, TRUE) >>
                    ELSE << >>)
                \o SubSeq(last.before, i + 1, Len(last.before))

\* an Allocate split a free descriptor that lies between two other descriptors
C14_Witness ==
    /\ last.op = "alloc" /\ last.size > 0 /\ last.ret # NULL
    /\ LET i == FindOffset(last.before, 1, last.ret) IN
         /\ 1 < i /\ i < Len(last.before)
         /\ last.before[i].size > last.size

\* offsets of the free descriptors
FreeOffsets(bl) == {bl[i].offset : i \in {j \in 1..Len(bl) : bl[j].is_free}}

\* C15: Allocate(0) leaves the chain unchanged and returns the address of the
\* lowest-offset free descriptor, or null when none is free; so another
\* Allocate(0) returns the same address, and an Allocate(n > 0) (here n = 1)
\* hands out that same address.
C15_ZeroSize ==
    (last.op = "alloc" /\ last.size = 0)
    => /\ block_list = last.before
       /\ IF FreeOffsets(last.before) = {} THEN last.ret = NULL
          ELSE /\ last.ret \in FreeOffsets(last.before)
               /\ \A o \in FreeOffsets(last.before) : last.ret <= o
               /\ \A ok \in Bools : mem_alloc(block_list, 0, ok).ret = last.ret
               /\ mem_alloc(block_list, 1, TRUE).ret = last.ret

\* Allocate(0) returned the address of a free descriptor behind a used one
C15_Witness ==
    /\ last.op = "alloc" /\ last.size = 0
    /\ last.ret # NULL /\ last.ret > 0
    /\ Len(block_list) >= 3

\* C16: Release(x) of a used descriptor replaces it, its next neighbour if
\* free and its previous neighbour if free by one free descriptor covering
\* exactly their ranges; every other descriptor is unchanged.
C16_ReleaseMerges ==
    (last.op = "free" /\ UsedAt(last.before, last.ptr))
    => LET b  == last.before
           i  == FindOffset(b, 1, last.ptr)
           lo == IF i > 1 /\ b[i - 1].is_free THEN i - 1 ELSE i
           hi == IF i < Len(b) /\ b[i + 1].is_free THEN i + 1 ELSE i
       IN  block_list =
             SubSeq(b, 1, lo - 1)
             \o << MemBlock(b[lo].offset, b[hi].offset + b[hi].size - b[lo].offset, TRUE) >>
             \o SubSeq(b, hi + 1, Len(b))

\* a Release merged a used block with free neighbours on both sides
C16_Witness ==
    /\ last.op = "free" /\ UsedAt(last.before, last.ptr)
    /\ LET i == FindOffset(last.before, 1, last.ptr) IN
         /\ 1 < i /\ i < Len(last.before)
         /\ last.before[i - 1].is_free /\ last.before[i + 1].is_free
    /\ Len(block_list) = Len(last.before) - 2

\* descriptor i can take size in place: it is long enough, or it is so
\* together with a free next descriptor
InPlaceFits(b, i, size) ==
    \/ b[i].size >= size
    \/ i < Len(b) /\ b[i + 1].is_free /\ b[i].size + b[i + 1].size >= size

\* bytes at hand for descriptor i in place
InPlaceTotal(b, i, size) ==
    IF b[i].size >= size THEN b[i].size ELSE b[i].size + b[i + 1].size

\* the chain after an in-place Resize of descriptor i to size
InPlaceResult(b, i, size) ==
    LET total == InPlaceTotal(b, i, size)
        used  == IF b[i].size >= size THEN i ELSE i + 1
    IN  SubSeq(b, 1, i - 1)
        \o << MemBlock(b[i].offset, size, FALSE) >>
        \o (IF total > size
            THEN << MemBlock(b[i].offset + size, total - size, TRUE) >>
            ELSE << >>)
        \o SubSeq(b, used + 1, Len(b))

\* the last call was Resize(x, size > 0) on a used descriptor
ResizedUsed == last.op = "resize" /\ last.size > 0 /\ UsedAt(last.before, last.ptr)

C18_Fallback ==
    LET i == FindOffset(last.before, 1, last.ptr)
        a == mem_alloc(last.before, last.size, last.ok)
    IN  (ResizedUsed /\ ~InPlaceFits(last.before, i, last.size))
        => IF a.ret = NULL
           THEN /\ last.ret = NULL
                /\ block_list = last.before
           ELSE /\ last.ret = a.ret /\ last.ret # last.ptr
                /\ block_list = mem_free(a.list, last.ptr)
                /\ UsedAt(block_list, last.ret)
                /\ LengthAt(block_list, last.ret) = last.size
                /\ ~UsedAt(block_list, last.ptr)
                /\ Len(block_list) <= Len(a.list)

\* a Resize moved a block to a lower free descriptor and its old block merged
\* with a free neighbour
C18_Witness ==
    /\ ResizedUsed
    /\ last.ret # NULL /\ last.ret # last.ptr
    /\ NoBlockAt(block_list, last.ptr)

\* byte k of the arena lies in a free descriptor
FreeByte(bl, k) ==
    \E i \in 1..Len(bl) :
        bl[i].is_free /\ bl[i].offset <= k /\ k < bl[i].offset + bl[i].size

\* the arena holds n contiguous free bytes, in one descriptor or in several
FreeRun(bl, cap, n) ==
    \E s \in 0..(cap - n) : \A k \in s..(s + n - 1) : FreeByte(bl, k)

\* C20: Allocate(n > 0) returns null only when the arena has no contiguous run
\* of n free bytes (stated for calls in which the host supplies the storage for
\* a split descriptor, so that a null result is the allocator's own refusal).
C20_ContiguousSucceeds ==
    (last.op = "alloc" /\ last.size > 0 /\ last.ok /\ last.ret = NULL)
    => ~FreeRun(last.before, pool_size, last.size)

\* C13: after mem_deinit, from any state, the pool has no descriptors and no
\* arena, so Allocate of any size returns null and Release changes nothing;
\* a following mem_init(c) yields one free descriptor spanning [0, c).
C13_Teardown ==
    /\ (last.op = "deinit") => (block_list = << >> /\ TornDown)
    /\ TornDown => block_list = << >>
    /\ (TornDown /\ last.op = "alloc") => last.ret = NULL
    /\ (TornDown /\ last.op = "free") => block_list = last.before
    /\ (last.op = "reinit")
       => /\ last.before = << >>
          /\ pool_size = last.size
          /\ block_list = create_initial_block(last.size)
          /\ DOMAIN memory_pool = 0..(last.size - 1)

\* after a teardown the pool was set up again with a capacity of 2 or more
C13_Witness ==
    /\ last.op = "reinit" /\ pool_size >= 2
    /\ block_list = create_initial_block(pool_size)

\* the places between LOCK() and UNLOCK() of the pool functions, and those of
\* them where the function walks or changes the chain
PoolHeld == {"a_body", "a_unlock", "f_body", "f_unlock", "r_body", "r_unlock",
             "r_fb_unlock", "d_body", "d_unlock"}
PoolBody == {"a_body", "f_body", "r_body", "d_body"}
PoolWait == {"a_lock", "f_lock", "r_lock", "d_lock"}

\* C11: with threads calling mem_alloc, mem_free, mem_resize and mem_deinit, a
\* thread between LOCK() and UNLOCK() is the holder of the pool lock, so there is
\* at most one; and every step that changes the chain is taken by the holder,
\* from the locked part of its function, so no step of another thread falls
\* between the chain accesses of one locked part
C11_Serialized ==
    /\ [](\A t \in Threads : pc[t] \in PoolHeld => mem_mutex = t)
    /\ [](Cardinality({t \in Threads : pc[t] \in PoolHeld}) <= 1)
    /\ [][block_list' # block_list =>
              \E t \in Threads : /\ mem_mutex = t /\ mem_mutex' = t
                                  /\ pc[t] \in PoolBody
                                  /\ pc'[t] # pc[t]
                                  /\ \A u \in Threads \ {t} : pc'[u] = pc[u]]_vars

\* a thread has changed the chain under the lock and still holds it while the
\* other thread waits in LOCK() of mem_deinit
C11_Witness ==
    \E t \in Threads, u \in Threads :
        /\ t # u
        /\ pc[t] = "a_unlock" /\ loc[t].ret # NULL /\ mem_mutex = t
        /\ UsedAt(block_list, loc[t].ret)
        /\ pc[u] = "d_lock"

\* t is in step 6 of mem_resize and its own mem_free(ptr) has not yet freed ptr
InFallback(t) ==
    \/ pc[t] \in {"r_fb_unlock", "r_copy"}
    \/ cont[t] = "r_copy" /\ pc[t] \in {"a_lock", "a_body", "a_unlock"}
    \/ cont[t] = "r_ret" /\ pc[t] \in {"f_lock", "f_body"}

\* t is in step 6 and its mem_alloc(size) has returned new_ptr, not NULL
Relocated(t) ==
    /\ loc[t].ret # NULL
    /\ \/ pc[t] \in {"r_copy", "r_ret"}
       \/ cont[t] = "r_ret" /\ pc[t] \in {"f_lock", "f_body", "f_unlock"}

\* the bytes of the descriptor at offset a, none when there is no such descriptor
BlockBytes(bl, a) ==
    LET i == FindOffset(bl, 1, a) IN
    IF i = 0 THEN {} ELSE a..(a + bl[i].size - 1)

\* C12: while threads call mem_alloc, mem_free and mem_resize with addresses
\* they hold, a mem_resize that takes the relocation path has, in every state:
\* the partition of the arena intact; the old block used and of its old length
\* until its own mem_free(ptr) runs; and a new_ptr that is not NULL at the start
\* of a used descriptor of length exactly size sharing no byte with a block
\* another thread holds
C12_Relocation ==
    /\ Partition(block_list, pool_size)
    /\ \A t \in Threads :
        /\ InFallback(t) =>
              /\ UsedAt(block_list, loc[t].ptr)
              /\ block_list[FindOffset(block_list, 1, loc[t].ptr)].size = loc[t].old_size
        /\ Relocated(t) =>
              /\ UsedAt(block_list, loc[t].ret)
              /\ block_list[FindOffset(block_list, 1, loc[t].ret)].size = loc[t].size
              /\ \A a \in DOMAIN own :
                    (own[a] # 0 /\ own[a] # t) =>
                        BlockBytes(block_list, a) \cap BlockBytes(block_list, loc[t].ret) = {}

\* a relocation has gone all the way, its old block freed, while the other
\* thread holds a block and is itself inside a call
C12_Witness ==
    \E t \in Threads, u \in Threads :
        /\ t # u
        /\ pc[t] = "r_ret" /\ loc[t].ret # NULL
        /\ ~UsedAt(block_list, loc[t].ptr)
        /\ OwnedBy(u) # {}
        /\ pc[u] # "idle"

\* the places where a thread waits in LOCK() of linked_list.c
ListWait == {"li_lock", "ld_lock", "lc_lock"}

\* C19: a thread holds the pool lock only inside the locked part of a pool
\* function, so every return of mem_alloc, mem_free, mem_resize and mem_deinit
\* leaves it released, and a thread outside every call holds no lock; the list
\* lock is only ever taken by a thread that does not hold the pool lock; and
\* under fair scheduling every thread is outside every call again and again:
\* no call waits for ever
C19_Returns ==
    /\ [](\A t \in Threads :
            /\ mem_mutex = t => pc[t] \in PoolHeld
            /\ pc[t] = "idle" => mem_mutex # t /\ list_mutex # t
            /\ pc[t] \in ListWait => mem_mutex # t)
    /\ [][\A t \in Threads : (list_mutex' = t /\ list_mutex # t) => mem_mutex # t]_vars
    /\ \A t \in Threads : []<>(pc[t] = "idle")

\* a list call holds the list lock and waits in LOCK() of the pool, which the
\* other thread holds in the locked part of mem_resize
C19_Witness ==
    \E t \in Threads, u \in Threads :
        /\ t # u
        /\ list_mutex = t /\ pc[t] \in PoolWait
        /\ mem_mutex = u /\ pc[u] = "r_fb_unlock"
====
